---------------------------- MODULE Spec2Model ----------------------------
(***************************************************************************)
(* A model of the triage core of the hospital finder backend:              *)
(*   - SymptomAnalyzer.analyze               (backend/symptom_analyzer.py) *)
(*   - HospitalService.find_nearby_hospitals,                              *)
(*     find_emergency_hospitals, score_hospitals                           *)
(*                                           (backend/hospital_service.py) *)
(*                                                                         *)
(* A Python str is modelled as the sequence of its code points.  A code    *)
(* point is a one-character string for ASCII and the string "Uxxxx" for    *)
(* the Devanagari and Telugu letters of the translation tables.            *)
(*                                                                         *)
(* Numbers with decimals are kept as scaled integers:                      *)
(*   confidence          in tenths           (0.5  is 5)                   *)
(*   geodesic distances and max_distance_km                                *)
(*                       in metres           (4.9 km is 4900)              *)
(*   distance_km, rating in hundredths       (4.9  is 490, 4.5 is 450)     *)
(*   score before round  in hundredths       (88.04 is 8804)               *)
(*   total_score         in tenths           (88.0 is 880)                 *)
(***************************************************************************)
EXTENDS Integers, Sequences, FiniteSets, TLC

VARIABLES
    symptoms,    \* analyze: the symptoms argument
    language,    \* analyze: the language argument
    a_pc,        \* "request" before analyze has run, "done" after
    analysis,    \* the dict analyze returned (NoAnalysis before)
    db,          \* the rows of the hospitals table, in rowid order
    location,    \* latitude and longitude of the user, in degrees
    geodesic,    \* row id -> geodesic(user_location, hospital_location), metres
    request,     \* specialty, priority and max_distance_km of the lookup
    h_pc,        \* "request", "found", "scored", "rescored", "emergency" or
                 \* "error" when the lookup raised
    hospitals,   \* the list find_nearby_hospitals returned
    ranked,      \* the list score_hospitals returned
    ranked_again, \* the list a second score_hospitals on the same list returned
    emergency,   \* the list the emergency lookup answered with
    static,      \* the attributes of the one SymptomAnalyzer all calls share
    calls        \* concurrent analyze calls: caller -> arguments, locals, position

a_vars == <<symptoms, language, a_pc, analysis>>

h_vars == <<db, location, geodesic, request, h_pc, hospitals, ranked,
           ranked_again, emergency>>

c_vars == <<static, calls>>

vars == <<a_vars, h_vars, c_vars>>

-----------------------------------------------------------------------------
(* Strings as sequences of code points                                     *)

\* The code points of an ASCII literal.
C(s) == [i \in 1..Len(s) |-> SubSeq(s, i, i)]

UpperCase == C("ABCDEFGHIJKLMNOPQRSTUVWXYZ")
LowerCase == C("abcdefghijklmnopqrstuvwxyz")

\* str.lower(): the cased letters of the model's alphabet are the ASCII ones.
LowerChar(c) ==
    IF \E i \in 1..Len(UpperCase) : UpperCase[i] = c
    THEN LowerCase[CHOOSE i \in 1..Len(UpperCase) : UpperCase[i] = c]
    ELSE c

Lower(s) == [i \in 1..Len(s) |-> LowerChar(s[i])]

\* Python's  sub in s .
Contains(sub, s) ==
    \E i \in 0..(Len(s) - Len(sub)) : \A j \in 1..Len(sub) : s[i + j] = sub[j]

\* str.replace(old, new): every non-overlapping occurrence, left to right.
RECURSIVE Replace(_, _, _)
Replace(s, old, new) ==
    IF Len(s) < Len(old) THEN s
    ELSE IF SubSeq(s, 1, Len(old)) = old
         THEN new \o Replace(SubSeq(s, Len(old) + 1, Len(s)), old, new)
         ELSE <<s[1]>> \o Replace(Tail(s), old, new)

\* str.split(): the maximal runs of non-space code points.
RECURSIVE SplitFrom(_, _)
SplitFrom(s, word) ==
    IF s = <<>> THEN (IF word = <<>> THEN <<>> ELSE <<word>>)
    ELSE IF s[1] = " "
         THEN (IF word = <<>> THEN <<>> ELSE <<word>>) \o SplitFrom(Tail(s), <<>>)
         ELSE SplitFrom(Tail(s), Append(word, s[1]))

Split(s) == SplitFrom(s, <<>>)

-----------------------------------------------------------------------------
(* The static tables of SymptomAnalyzer                                    *)

\* The keys of medical_keywords, in the dict's insertion order.
Categories ==
    << "cardiovascular", "respiratory", "neurological", "gastrointestinal",
       "orthopedic", "infectious", "emergency", "pediatric", "gynecological",
       "dermatology", "ophthalmology", "ent", "general" >>

medical_keywords ==
    [ cardiovascular |->
        << C("chest pain"), C("heart attack"), C("cardiac"), C("palpitations"),
           C("angina"), C("shortness of breath"), C("irregular heartbeat"),
           C("heart pounding"), C("chest pressure"), C("heart racing"),
           C("cardiovascular") >>,
      respiratory |->
        << C("breathing"), C("cough"), C("asthma"), C("pneumonia"),
           C("bronchitis"), C("wheezing"), C("respiratory"), C("lung"),
           C("breathless"), C("dyspnea"), C("chest congestion"),
           C("difficulty breathing") >>,
      neurological |->
        << C("headache"), C("migraine"), C("seizure"), C("stroke"),
           C("paralysis"), C("numbness"), C("tingling"), C("dizziness"),
           C("vertigo"), C("confusion"), C("memory loss"), C("neurological"),
           C("brain"), C("nerve pain") >>,
      gastrointestinal |->
        << C("stomach pain"), C("abdominal pain"), C("nausea"), C("vomiting"),
           C("diarrhea"), C("constipation"), C("digestive"), C("gastric"),
           C("intestinal"), C("bowel"), C("food poisoning"), C("indigestion"),
           C("acid reflux") >>,
      orthopedic |->
        << C("bone"), C("fracture"), C("joint pain"), C("back pain"),
           C("spinal"), C("arthritis"), C("muscle pain"), C("sprain"),
           C("strain"), C("orthopedic"), C("knee pain"), C("shoulder pain"),
           C("hip pain") >>,
      infectious |->
        << C("fever"), C("infection"), C("flu"), C("cold"), C("viral"),
           C("bacterial"), C("malaria"), C("dengue"), C("typhoid"),
           C("chills"), C("sweating"), C("body ache"), C("fatigue") >>,
      emergency |->
        << C("accident"), C("injury"), C("bleeding"), C("trauma"), C("burn"),
           C("wound"), C("fall"), C("crash"), C("emergency"),
           C("severe pain"), C("unconscious"), C("heavy bleeding"),
           C("deep cut") >>,
      pediatric |->
        << C("child"), C("baby"), C("infant"), C("kid"), C("pediatric"),
           C("newborn"), C("toddler"), C("childhood") >>,
      gynecological |->
        << C("pregnancy"), C("prenatal"), C("delivery"), C("gynecological"),
           C("menstrual"), C("obstetric"), C("pregnant"), C("labor"),
           C("gynecology") >>,
      dermatology |->
        << C("skin"), C("rash"), C("allergy"), C("itch"), C("dermatology"),
           C("acne"), C("eczema"), C("psoriasis"), C("skin infection"),
           C("hives") >>,
      ophthalmology |->
        << C("eye"), C("vision"), C("blind"), C("ophthalmology"), C("visual"),
           C("sight"), C("eye pain"), C("blurred vision"),
           C("eye infection") >>,
      ent |->
        << C("ear"), C("nose"), C("throat"), C("ent"), C("hearing"),
           C("sinus"), C("tonsil"), C("ear pain"), C("sore throat"),
           C("nasal"), C("hearing loss") >>,
      general |->
        << C("general"), C("checkup"), C("consultation"), C("medical"),
           C("health"), C("wellness"), C("screening") >> ]

specialty_rules ==
    [ cardiovascular   |-> "Cardiology",
      respiratory      |-> "Pulmonology",
      neurological     |-> "Neurology",
      gastrointestinal |-> "Gastroenterology",
      orthopedic       |-> "Orthopedics",
      infectious       |-> "Infectious Disease",
      emergency        |-> "Emergency Medicine",
      pediatric        |-> "Pediatrics",
      gynecological    |-> "Obstetrics & Gynecology",
      dermatology      |-> "Dermatology",
      ophthalmology    |-> "Ophthalmology",
      ent              |-> "ENT",
      general          |-> "General Medicine" ]

priority_rules ==
    [ critical |->
        << C("heart attack"), C("stroke"), C("unconscious"),
           C("heavy bleeding"), C("severe bleeding"), C("can't breathe"),
           C("chest pain"), C("paralysis"), C("severe burns"),
           C("head injury"), C("poisoning"), C("seizure") >>,
      urgent |->
        << C("severe pain"), C("high fever"), C("difficulty breathing"),
           C("vomiting blood"), C("severe headache"), C("abdominal pain"),
           C("accident"), C("injury"), C("deep cut"), C("broken bone"),
           C("very dizzy") >>,
      normal |-> << >> ]

\* The translations dict of _translate_symptoms: per language, the
\* (native word, english word) items in insertion order.
translations ==
    [ hi |->
      << <<<<"U092C", "U0941", "U0916", "U093E", "U0930">>, C("fever")>>,
         <<<<"U0938", "U093F", "U0930", "U0926", "U0930", "U094D", "U0926">>, C("headache")>>,
         <<<<"U0926", "U0930", "U094D", "U0926">>, C("pain")>>,
         <<<<"U092A", "U0947", "U091F">>, C("stomach")>>,
         <<<<"U0916", "U093E", "U0902", "U0938", "U0940">>, C("cough")>>,
         <<<<"U0938", "U093E", "U0902", "U0938">>, C("breathing")>>,
         <<<<"U091A", "U0915", "U094D", "U0915", "U0930">>, C("dizziness")>>,
         <<<<"U0915", "U092E", "U091C", "U094B", "U0930", "U0940">>, C("weakness")>>,
         <<<<"U0909", "U0932", "U094D", "U091F", "U0940">>, C("vomiting")>> >>,
      te |->
      << <<<<"U0C1C", "U0C4D", "U0C35", "U0C30", "U0C02">>, C("fever")>>,
         <<<<"U0C24", "U0C32", "U0C28", "U0C4A", "U0C2A", "U0C4D", "U0C2A", "U0C3F">>, C("headache")>>,
         <<<<"U0C28", "U0C4A", "U0C2A", "U0C4D", "U0C2A", "U0C3F">>, C("pain")>>,
         <<<<"U0C15", "U0C21", "U0C41", "U0C2A", "U0C41">>, C("stomach")>>,
         <<<<"U0C26", "U0C17", "U0C4D", "U0C17", "U0C41">>, C("cough")>>,
         <<<<"U0C36", "U0C4D", "U0C35", "U0C3E", "U0C38">>, C("breathing")>>,
         <<<<"U0C24", "U0C32", "U0C24", "U0C3F", "U0C30", "U0C17", "U0C21", "U0C02">>, C("dizziness")>>,
         <<<<"U0C2C", "U0C32", "U0C39", "U0C40", "U0C28", "U0C24">>, C("weakness")>>,
         <<<<"U0C35", "U0C3E", "U0C02", "U0C24", "U0C41", "U0C32", "U0C41">>, C("vomiting")>> >> ]

-----------------------------------------------------------------------------
(* SymptomAnalyzer                                                         *)

\* _translate_symptoms: the replacements of the language's table, applied
\* one after the other; a language without a table changes nothing.
RECURSIVE ReplaceAll(_, _, _)
ReplaceAll(s, items, i) ==
    IF i > Len(items) THEN s
    ELSE ReplaceAll(Replace(s, items[i][1], items[i][2]), items, i + 1)

TranslateSymptoms(s, lang) ==
    IF lang \in DOMAIN translations THEN ReplaceAll(s, translations[lang], 1)
    ELSE s

\* Mutant of KeywordScore: a matching word counts like the whole phrase.
KeywordScoreAnyWordFull(keyword, s) ==
    IF \/ Contains(keyword, s)
       \/ \E w \in { Split(keyword)[k] : k \in 1..Len(Split(keyword)) } :
              Contains(w, s)
    THEN 3
    ELSE 0

\* Mutant of KeywordScore: without the whole phrase, every word of it that
\* matches counts 1.
KeywordScorePerWord(keyword, s) ==
    IF Contains(keyword, s) THEN 3
    ELSE Cardinality({ k \in 1..Len(Split(keyword)) : Contains(Split(keyword)[k], s) })

\* One keyword's contribution in _score_categories.
KeywordScore(keyword, s) ==
    IF Contains(keyword, s) THEN 3
    ELSE LET words == Split(keyword)
         IN IF \E k \in 1..Len(words) : Contains(words[k], s)
            THEN 1
            ELSE 0

RECURSIVE CategoryScore(_, _, _)
CategoryScore(keywords, s, i) ==
    IF i > Len(keywords) THEN 0
    ELSE KeywordScore(keywords[i], s) + CategoryScore(keywords, s, i + 1)

\* _score_categories: the items of the scores dict, in insertion order.
RECURSIVE ScoreFromIn(_, _, _)
ScoreFromIn(keywords_of, s, i) ==
    IF i > Len(Categories) THEN << >>
    ELSE LET score == CategoryScore(keywords_of[Categories[i]], s, 1)
         IN (IF score > 0 THEN << <<Categories[i], score>> >> ELSE << >>)
            \o ScoreFromIn(keywords_of, s, i + 1)

\* The scan over self.medical_keywords.
ScoreFrom(s, i) == ScoreFromIn(medical_keywords, s, i)

ScoreCategories(s) == ScoreFrom(s, 1)

\* Mutant of DeterminePriority: the urgent list is never scanned.
DeterminePriorityCriticalOnly(s) ==
    IF \E i \in 1..Len(priority_rules.critical) :
           Contains(priority_rules.critical[i], s)
    THEN "critical"
    ELSE "normal"

\* Mutant of DeterminePriority: the urgent list is scanned first.
DeterminePriorityUrgentFirst(s) ==
    IF \E i \in 1..Len(priority_rules.urgent) :
           Contains(priority_rules.urgent[i], s)
    THEN "urgent"
    ELSE IF \E i \in 1..Len(priority_rules.critical) :
                Contains(priority_rules.critical[i], s)
         THEN "critical"
         ELSE "normal"

\* _determine_priority
DeterminePriorityIn(rules, s) ==
    IF \E i \in 1..Len(rules.critical) :
           Contains(rules.critical[i], s)
    THEN "critical"
    ELSE IF \E i \in 1..Len(rules.urgent) :
                Contains(rules.urgent[i], s)
         THEN "urgent"
         ELSE "normal"

\* The scan over self.priority_rules.
DeterminePriority(s) == DeterminePriorityIn(priority_rules, s)

\* Mutant of TopCategory: a later item replaces an equal earlier one.
RECURSIVE MaxFromLast(_, _, _)
MaxFromLast(items, best, i) ==
    IF i > Len(items) THEN best
    ELSE MaxFromLast(items, IF items[i][2] >= best[2] THEN items[i] ELSE best, i + 1)

TopCategoryLast(items) == MaxFromLast(items, items[1], 2)

\* max(category_scores.items(), key=lambda x: x[1]): the first item, in
\* iteration order, whose score no other item exceeds.
RECURSIVE MaxFrom(_, _, _)
MaxFrom(items, best, i) ==
    IF i > Len(items) THEN best
    ELSE MaxFrom(items, IF items[i][2] > best[2] THEN items[i] ELSE best, i + 1)

TopCategory(items) == MaxFrom(items, items[1], 2)

\* Mutant of Confidence: the cap at 1.0 is missing.
ConfidenceUncapped(score) == score

\* min(score / 10.0, 1.0), in tenths.
Confidence(score) == IF score < 10 THEN score ELSE 10

\* The confidence of the no-match branch, 0.5, in tenths.
DefaultConfidence == 5

\* dict.get(category, 'General Medicine')
SpecialtyOfIn(rules, category) ==
    IF category \in DOMAIN rules THEN rules[category]
    ELSE "General Medicine"

\* The lookup in self.specialty_rules.
SpecialtyOf(category) == SpecialtyOfIn(specialty_rules, category)

\* analyze, up to the translation: the text the scans run on.
Normalize(text, lang) ==
    IF lang # "en" THEN TranslateSymptoms(Lower(text), lang) ELSE Lower(text)

\* analyze
AnalyzeResult(text, lang) ==
    LET symptoms_lower == Normalize(text, lang)
        category_scores == ScoreCategories(symptoms_lower)
        priority       == DeterminePriority(symptoms_lower)
        category       == IF category_scores # << >>
                          THEN TopCategory(category_scores)[1]
                          ELSE "general"
        confidence     == IF category_scores # << >>
                          THEN Confidence(TopCategory(category_scores)[2])
                          ELSE DefaultConfidence
    IN [ category   |-> category,
         specialty  |-> SpecialtyOf(category),
         priority   |-> priority,
         confidence |-> confidence,
         raw_scores |-> category_scores ]

NoAnalysis == [ category |-> "", specialty |-> "", priority |-> "",
                confidence |-> 0, raw_scores |-> << >> ]

-----------------------------------------------------------------------------
(* The inputs of analyze                                                   *)

\* The number of fragments a text is put together from.
MaxFragments == 2

Fragments ==
    { C("zzz qqq"),
      C("Very Dizzy"),
      C("I have severe chest pain and difficulty breathing"),
      C("cardiac palpitations"),
      C("stroke"),
      <<"U0938", "U093F", "U0930", "U0926", "U0930", "U094D", "U0926">>,
      <<"U0C1C", "U0C4D", "U0C35", "U0C30", "U0C02">> }

RECURSIVE Join(_)
Join(fs) ==
    IF fs = << >> THEN << >>
    ELSE IF Len(fs) = 1 THEN fs[1]
    ELSE fs[1] \o <<" ">> \o Join(Tail(fs))

Texts ==
    { Join(fs) : fs \in UNION { [1..n -> Fragments] : n \in 0..MaxFragments } }

Languages == { "en", "hi", "te", "fr" }

-----------------------------------------------------------------------------
(* HospitalService                                                         *)

\* Python's None and SQL's NULL: no str is this sequence.
None == << "None" >>

\* The truth value of a str or None.
Truthy(v) == v # None /\ v # << >>

\* str.split(','): the fields between the commas, empty ones included.
RECURSIVE SplitCommaFrom(_, _)
SplitCommaFrom(s, field) ==
    IF s = << >> THEN << field >>
    ELSE IF s[1] = ","
         THEN << field >> \o SplitCommaFrom(Tail(s), << >>)
         ELSE SplitCommaFrom(Tail(s), Append(field, s[1]))

SplitComma(s) == SplitCommaFrom(s, << >>)

\* Mutant of SelectHospitals: 'critical' is restricted like 'urgent', to
\* the rows with an emergency department.
RECURSIVE SelectHospitalsEmergencyOnly(_, _)
SelectHospitalsEmergencyOnly(rows, priority) ==
    IF rows = << >> THEN << >>
    ELSE LET row  == Head(rows)
             keep == IF priority \in { "critical", "urgent" }
                     THEN row.has_emergency = 1
                     ELSE TRUE
         IN (IF keep THEN << row >> ELSE << >>)
            \o SelectHospitalsEmergencyOnly(Tail(rows), priority)

\* The SELECT of find_nearby_hospitals: the rows in rowid order, restricted
\* by the priority.
RECURSIVE SelectHospitals(_, _)
SelectHospitals(rows, priority) ==
    IF rows = << >> THEN << >>
    ELSE LET row  == Head(rows)
             keep == IF priority = "critical"
                     THEN row.has_emergency = 1 /\ row.open_247 = 1
                     ELSE IF priority = "urgent"
                          THEN row.has_emergency = 1
                          ELSE TRUE
         IN (IF keep THEN << row >> ELSE << >>)
            \o SelectHospitals(Tail(rows), priority)

\* round(distance_km, 2): metres to hundredths of a kilometre, a tie going
\* to the even neighbour.
Round2(metres) ==
    LET q == metres \div 10
        r == metres % 10
    IN IF r < 5 THEN q
       ELSE IF r > 5 THEN q + 1
       ELSE IF q % 2 = 0 THEN q ELSE q + 1

\* Mutant of CalculateTravelTime: the minimum of 5 minutes is missing.
CalculateTravelTimeNoMinimum(metres) == (metres * 60) \div (25 * 1000)

\* _calculate_travel_time: int(distance_km / 25 * 60), at least 5.
CalculateTravelTime(metres) ==
    LET travel_time_minutes == (metres * 60) \div (25 * 1000)
    IN IF travel_time_minutes > 5 THEN travel_time_minutes ELSE 5

\* Mutant of SpecialtyMatch: the strings are compared as they are written.
SpecialtyMatchCaseSensitive(specialty, specialties) ==
    IF Truthy(specialty)
    THEN \E i \in 1..Len(specialties) : Contains(specialty, specialties[i])
    ELSE TRUE

\* any(specialty.lower() in s.lower() for s in specialties), or True when
\* no specialty is asked for.
SpecialtyMatch(specialty, specialties) ==
    IF Truthy(specialty)
    THEN \E i \in 1..Len(specialties) :
             Contains(Lower(specialty), Lower(specialties[i]))
    ELSE TRUE

\* Mutant of HospitalDict: the columns are split without the test for a
\* NULL or empty column, so neither becomes the empty list.
HospitalDictUnguarded(row, metres, specialty) ==
    LET specialties == SplitComma(row.specialties)
        facilities  == SplitComma(row.facilities)
    IN [ id                  |-> row.id,
         rating              |-> row.rating,
         has_emergency       |-> row.has_emergency,
         has_ambulance       |-> row.has_ambulance,
         open_247            |-> row.open_247,
         distance_km         |-> Round2(metres),
         travel_time_minutes |-> CalculateTravelTime(metres),
         specialties         |-> specialties,
         facilities          |-> facilities,
         specialty_match     |-> SpecialtyMatch(specialty, specialties) ]

\* The dict find_nearby_hospitals builds from a row within the radius.
HospitalDict(row, metres, specialty) ==
    LET specialties == IF Truthy(row.specialties)
                       THEN SplitComma(row.specialties) ELSE << >>
        facilities  == IF Truthy(row.facilities)
                       THEN SplitComma(row.facilities) ELSE << >>
    IN [ id                  |-> row.id,
         rating              |-> row.rating,
         has_emergency       |-> row.has_emergency,
         has_ambulance       |-> row.has_ambulance,
         open_247            |-> row.open_247,
         distance_km         |-> Round2(metres),
         travel_time_minutes |-> CalculateTravelTime(metres),
         specialties         |-> specialties,
         facilities          |-> facilities,
         specialty_match     |-> SpecialtyMatch(specialty, specialties) ]

\* The loop of find_nearby_hospitals: the dicts of the rows whose distance
\* is within max_distance_km, in row order.
RECURSIVE WithinDistance(_, _, _, _)
WithinDistance(rows, dist, specialty, max_distance) ==
    IF rows = << >> THEN << >>
    ELSE LET row == Head(rows)
         IN (IF dist[row.id] <= max_distance
             THEN << HospitalDict(row, dist[row.id], specialty) >>
             ELSE << >>)
            \o WithinDistance(Tail(rows), dist, specialty, max_distance)

\* list.sort(key=lambda x: x['distance_km']): stable, ascending.
RECURSIVE InsertByDistance(_, _)
InsertByDistance(sorted, h) ==
    IF sorted = << >> THEN << h >>
    ELSE IF Head(sorted).distance_km > h.distance_km
         THEN << h >> \o sorted
         ELSE << Head(sorted) >> \o InsertByDistance(Tail(sorted), h)

RECURSIVE SortByDistance(_)
SortByDistance(list) ==
    IF list = << >> THEN << >>
    ELSE InsertByDistance(SortByDistance(SubSeq(list, 1, Len(list) - 1)),
                          list[Len(list)])

\* find_nearby_hospitals
FindNearbyHospitals(rows, dist, specialty, priority, max_distance) ==
    SortByDistance(
        WithinDistance(SelectHospitals(rows, priority), dist, specialty,
                       max_distance))

\* The coordinate ranges.
ValidLatitude(latitude) == latitude >= -90 /\ latitude <= 90

ValidLongitude(longitude) == longitude >= -180 /\ longitude <= 180

\* Whether geodesic(user_location, hospital_location) raises.  The code
\* checks no coordinate itself and leaves the tuple to geopy, whose release
\* is not pinned: a longitude out of range is wrapped into [-180, 180] and a
\* distance is computed; a latitude out of range is rejected with ValueError
\* by geopy 2 and wrapped by geopy 1.  Both outcomes are possible for a
\* latitude out of range, and only the distance for anything else.
GeodesicRaises(user_location) ==
    IF ValidLatitude(user_location.latitude) THEN { FALSE } ELSE BOOLEAN

\* The default max_distance_km of find_emergency_hospitals, 30, in metres.
EmergencyMaxDistance == 30000

\* Mutant of FindEmergencyHospitals: the lookup asks for 'urgent'.
FindEmergencyHospitalsUrgent(rows, dist, max_distance) ==
    FindNearbyHospitals(rows, dist, None, "urgent", max_distance)

\* find_emergency_hospitals
FindEmergencyHospitals(rows, dist, max_distance) ==
    FindNearbyHospitals(rows, dist, None, "critical", max_distance)

\* The specialty part of the score.
SpecialtyScore(h) ==
    IF h.specialty_match THEN 40
    ELSE IF \E i \in 1..Len(h.specialties) :
                h.specialties[i] = C("General Medicine")
         THEN 20
         ELSE 0

\* Mutant of DistanceScore: the tiers exclude their upper ends.
DistanceScoreStrict(h) ==
    IF h.distance_km < 500 THEN 30
    ELSE IF h.distance_km < 1000 THEN 25
    ELSE IF h.distance_km < 2000 THEN 15
    ELSE IF h.distance_km < 3000 THEN 10
    ELSE 5

\* The distance part of the score.
DistanceScore(h) ==
    IF h.distance_km <= 500 THEN 30
    ELSE IF h.distance_km <= 1000 THEN 25
    ELSE IF h.distance_km <= 2000 THEN 15
    ELSE IF h.distance_km <= 3000 THEN 10
    ELSE 5

\* Mutant of RatingScore: the division by 5 is missing.
RatingScoreUnscaled(h) == h.rating * 20

\* The rating part of the score, (rating / 5.0) * 20, in hundredths.
RatingScore(h) == (h.rating * 20) \div 5

\* Mutant of EmergencyScore: every priority but 'normal' earns the bonus.
EmergencyScoreUnlessNormal(h, priority) ==
    IF priority # "normal"
    THEN (IF h.has_emergency # 0 THEN 10 ELSE 0)
         + (IF h.has_ambulance # 0 THEN 5 ELSE 0)
    ELSE 0

\* The emergency part of the score.
EmergencyScore(h, priority) ==
    IF priority \in { "critical", "urgent" }
    THEN (IF h.has_emergency # 0 THEN 10 ELSE 0)
         + (IF h.has_ambulance # 0 THEN 5 ELSE 0)
    ELSE 0

\* round(score, 1): hundredths to tenths, a tie going to the even neighbour.
Round1(hundredths) ==
    LET q == hundredths \div 10
        r == hundredths % 10
    IN IF r < 5 THEN q
       ELSE IF r > 5 THEN q + 1
       ELSE IF q % 2 = 0 THEN q ELSE q + 1

\* The total_score score_hospitals stores in a dict.
TotalScore(h, priority) ==
    Round1(100 * (SpecialtyScore(h) + DistanceScore(h) + EmergencyScore(h, priority))
           + RatingScore(h))

\* Mutant of WithTotalScore: the score starts from the total_score the dict
\* already holds.
WithTotalScoreAccumulating(h, priority) ==
    [ k \in DOMAIN h \cup { "total_score" } |->
        IF k = "total_score"
        THEN TotalScore(h, priority)
             + (IF "total_score" \in DOMAIN h THEN h.total_score ELSE 0)
        ELSE h[k] ]

\* hospital['total_score'] = ...: the dict with the key set.
WithTotalScore(h, priority) ==
    [ k \in DOMAIN h \cup { "total_score" } |->
        IF k = "total_score" THEN TotalScore(h, priority) ELSE h[k] ]

\* Mutant of SortByScore: sorted ascending (stable), then reversed.
RECURSIVE InsertByScoreAscending(_, _)
InsertByScoreAscending(sorted, h) ==
    IF sorted = << >> THEN << h >>
    ELSE IF Head(sorted).total_score > h.total_score
         THEN << h >> \o sorted
         ELSE << Head(sorted) >> \o InsertByScoreAscending(Tail(sorted), h)

RECURSIVE SortByScoreAscending(_)
SortByScoreAscending(list) ==
    IF list = << >> THEN << >>
    ELSE InsertByScoreAscending(SortByScoreAscending(SubSeq(list, 1, Len(list) - 1)),
                                list[Len(list)])

SortByScoreReversed(list) ==
    LET asc == SortByScoreAscending(list)
    IN [ i \in 1..Len(asc) |-> asc[Len(asc) + 1 - i] ]

\* list.sort(key=lambda x: x['total_score'], reverse=True): stable,
\* descending.
RECURSIVE InsertByScore(_, _)
InsertByScore(sorted, h) ==
    IF sorted = << >> THEN << h >>
    ELSE IF Head(sorted).total_score < h.total_score
         THEN << h >> \o sorted
         ELSE << Head(sorted) >> \o InsertByScore(Tail(sorted), h)

RECURSIVE SortByScore(_)
SortByScore(list) ==
    IF list = << >> THEN << >>
    ELSE InsertByScore(SortByScore(SubSeq(list, 1, Len(list) - 1)),
                       list[Len(list)])

\* Mutant of Scored: the list that is sorted is the list that was given,
\* not a copy of it.
ScoredSortedInPlace(list, priority) ==
    SortByScore([ i \in 1..Len(list) |-> WithTotalScore(list[i], priority) ])

\* The dicts of the list after the loop of score_hospitals, in the order
\* of the list it was given.
Scored(list, priority) ==
    [ i \in 1..Len(list) |-> WithTotalScore(list[i], priority) ]

\* score_hospitals
ScoreHospitals(list, priority) == SortByScore(Scored(list, priority))

\* list[:n]
Take(list, n) == SubSeq(list, 1, IF Len(list) < n THEN Len(list) ELSE n)

-----------------------------------------------------------------------------
(* The inputs of the ranking                                               *)

\* The number of rows of the hospitals table.
MaxHospitals == 2

\* What a row can hold besides its id: rows of the sample data kind and
\* rows with missing or empty columns.
RowKinds ==
    { [ rating |-> 500, has_emergency |-> 1, has_ambulance |-> 1, open_247 |-> 1,
        specialties |-> C("Cardiology,Neurology"),
        facilities  |-> C("ICU,CT Scan") ],
      [ rating |-> 437, has_emergency |-> 0, has_ambulance |-> 0, open_247 |-> 0,
        specialties |-> C("ENT,General Medicine"),
        facilities  |-> C("Pharmacy") ],
      [ rating |-> 500, has_emergency |-> 1, has_ambulance |-> 0, open_247 |-> 0,
        specialties |-> None,
        facilities  |-> None ],
      [ rating |-> 450, has_emergency |-> 0, has_ambulance |-> 1, open_247 |-> 1,
        specialties |-> << >>,
        facilities  |-> << >> ] }

\* The geodesic distances of a row from the user, in metres.
Distances == { 1200, 4900, 9996, 15000, 30001, 40000 }

Tables ==
    UNION { { [ i \in 1..n |->
                  [ id |-> i, rating |-> kinds[i].rating,
                    has_emergency |-> kinds[i].has_emergency,
                    has_ambulance |-> kinds[i].has_ambulance,
                    open_247 |-> kinds[i].open_247,
                    specialties |-> kinds[i].specialties,
                    facilities |-> kinds[i].facilities ] ] :
              kinds \in [1..n -> RowKinds] } : n \in 0..MaxHospitals }

\* A user in Visakhapatnam, where the sample hospitals are.
UserLocation == [ latitude |-> 17, longitude |-> 83 ]

\* Locations a request can carry: the one above, a latitude beyond the
\* pole and the longitude above a full turn further east.
Locations ==
    { UserLocation,
      [ latitude |-> 95, longitude |-> 83 ],
      [ latitude |-> 17, longitude |-> 443 ] }

\* The requests: every priority without a specialty and with one, within
\* the default radius, and the empty specialty within that radius and
\* within a short one.
Requests ==
    { r \in [ specialty        : { None, << >>, C("cardiology") },
              priority         : { "normal", "urgent", "critical", "routine" },
              max_distance_km  : { 9997, 50000 } ] :
        /\ r.specialty = << >> => r.priority = "normal"
        /\ r.max_distance_km = 9997 => r.specialty = << >> }

-----------------------------------------------------------------------------
(* Specification of the classifier: a request is drawn, analyze answers it *)

\* No concurrent calls: the shared attributes are not tracked.
CIdle ==
    /\ static = << >>
    /\ calls = << >>

\* No lookup: an empty table, nothing asked, nothing answered.
HIdle ==
    /\ db = << >>
    /\ location = UserLocation
    /\ geodesic = << >>
    /\ request = [ specialty |-> None, priority |-> "normal",
                   max_distance_km |-> 50000 ]
    /\ h_pc = "idle"
    /\ hospitals = << >>
    /\ ranked = << >>
    /\ ranked_again = << >>
    /\ emergency = << >>

AInit ==
    /\ symptoms \in Texts
    /\ language \in Languages
    /\ a_pc = "request"
    /\ analysis = NoAnalysis
    /\ HIdle
    /\ CIdle

Analyze ==
    /\ a_pc = "request"
    /\ analysis' = AnalyzeResult(symptoms, language)
    /\ a_pc' = "done"
    /\ UNCHANGED <<symptoms, language, h_vars, c_vars>>

ANext == Analyze

SpecClassify == AInit /\ [][ANext]_vars

-----------------------------------------------------------------------------
(* Specification of the ranking: a table, the distances of its rows and a  *)
(* request are drawn; the request is answered by find_nearby_hospitals     *)
(* and then score_hospitals, or by the emergency lookup                    *)

\* No analysis: nothing asked, nothing answered.
AIdle ==
    /\ symptoms = << >>
    /\ language = "en"
    /\ a_pc = "idle"
    /\ analysis = NoAnalysis

HInit ==
    /\ db \in Tables
    /\ location = UserLocation
    /\ geodesic \in [1..Len(db) -> Distances]
    /\ request \in Requests
    /\ h_pc = "request"
    /\ hospitals = << >>
    /\ ranked = << >>
    /\ ranked_again = << >>
    /\ emergency = << >>
    /\ AIdle
    /\ CIdle

\* hospital_service.find_nearby_hospitals(latitude, longitude, specialty,
\* priority, max_distance_km)
FindNearby ==
    /\ h_pc = "request"
    /\ \E raises \in GeodesicRaises(location) :
           IF raises /\ SelectHospitals(db, request.priority) # << >>
           THEN \* the first geodesic call of the loop raises
                /\ hospitals' = hospitals
                /\ h_pc' = "error"
           ELSE /\ hospitals' = FindNearbyHospitals(db, geodesic, request.specialty,
                                                    request.priority,
                                                    request.max_distance_km)
                /\ h_pc' = "found"
    /\ UNCHANGED <<db, location, geodesic, request, ranked, ranked_again, emergency, a_vars, c_vars>>

\* hospital_service.score_hospitals(hospitals, latitude, longitude,
\* analysis): the dicts of the list are written in place, the sorted list
\* is a new one.
Score ==
    /\ h_pc = "found"
    /\ hospitals' = Scored(hospitals, request.priority)
    /\ ranked' = ScoreHospitals(hospitals, request.priority)
    /\ h_pc' = "scored"
    /\ UNCHANGED <<db, location, geodesic, request, ranked_again, emergency, a_vars, c_vars>>

\* score_hospitals called once more with the list it has already written
\* into and the same analysis.
ScoreAgain ==
    /\ h_pc = "scored"
    /\ hospitals' = Scored(hospitals, request.priority)
    /\ ranked_again' = ScoreHospitals(hospitals, request.priority)
    /\ h_pc' = "rescored"
    /\ UNCHANGED <<db, location, geodesic, request, ranked, emergency, a_vars, c_vars>>

\* The handler of /api/emergency-hospitals.
EmergencyHospitals ==
    /\ h_pc = "request"
    /\ \E raises \in GeodesicRaises(location) :
           IF raises /\ SelectHospitals(db, "critical") # << >>
           THEN /\ emergency' = emergency
                /\ h_pc' = "error"
           ELSE /\ emergency' = Take(FindEmergencyHospitals(db, geodesic,
                                                            EmergencyMaxDistance), 15)
                /\ h_pc' = "emergency"
    /\ UNCHANGED <<db, location, geodesic, request, hospitals, ranked, ranked_again, a_vars, c_vars>>

HNext == FindNearby \/ Score \/ ScoreAgain \/ EmergencyHospitals

SpecRank == HInit /\ [][HNext]_vars

-----------------------------------------------------------------------------
(* Specification of the lookup with any coordinates: as the ranking, with  *)
(* the user location drawn as well                                         *)

LInit ==
    /\ db \in Tables
    /\ location \in Locations
    /\ geodesic \in [1..Len(db) -> Distances]
    /\ request \in Requests
    /\ h_pc = "request"
    /\ hospitals = << >>
    /\ ranked = << >>
    /\ ranked_again = << >>
    /\ emergency = << >>
    /\ AIdle
    /\ CIdle

SpecLocate == LInit /\ [][HNext]_vars

-----------------------------------------------------------------------------
(* Specification of concurrent requests: the server handles requests in    *)
(* threads that share the one SymptomAnalyzer and the one HospitalService  *)
(* of the module.  Two analyze calls and one lookup run interleaved; a     *)
(* step of analyze is one of its reads of a shared attribute.              *)

\* The attributes __init__ sets.
StaticTables ==
    [ medical_keywords |-> medical_keywords,
      specialty_rules  |-> specialty_rules,
      priority_rules   |-> priority_rules ]

\* The threads inside analyze.
Callers == { 1, 2 }

\* The arguments of the concurrent analyze calls.
ConcurrentArguments ==
    { [ symptoms |-> C("heart attack"), language |-> "en" ],
      [ symptoms |-> C("Very Dizzy"), language |-> "en" ],
      [ symptoms |-> <<"U0938", "U093F", "U0930", "U0926", "U0930", "U094D", "U0926">>,
        language |-> "hi" ] }

\* The lookups that run beside them: one row with an emergency department,
\* near, and a request for cardiology within the whole radius.
ConcurrentTables == { t \in Tables : Len(t) = 1 /\ t[1].has_emergency = 1 }

ConcurrentLookups ==
    { r \in Requests : /\ r.max_distance_km = 50000
                       /\ r.specialty = C("cardiology")
                       /\ r.priority \in { "normal", "critical" } }

\* A call that has its arguments and has not run a line.
Called(arguments) ==
    [ pc              |-> "lower",
      symptoms        |-> arguments.symptoms,
      language        |-> arguments.language,
      symptoms_lower  |-> << >>,
      category_scores |-> << >>,
      priority        |-> "",
      result          |-> NoAnalysis ]

CInit ==
    /\ static = StaticTables
    /\ calls \in [ Callers -> { Called(a) : a \in ConcurrentArguments } ]
    /\ db \in ConcurrentTables
    /\ location = UserLocation
    /\ geodesic = [ i \in 1..Len(db) |-> 4900 ]
    /\ request \in ConcurrentLookups
    /\ h_pc = "request"
    /\ hospitals = << >>
    /\ ranked = << >>
    /\ ranked_again = << >>
    /\ emergency = << >>
    /\ AIdle

\* symptoms_lower = symptoms.lower() and the translation, whose table is
\* local to the call.
CLower(self) ==
    /\ calls[self].pc = "lower"
    /\ calls' = [ calls EXCEPT
                    ![self].symptoms_lower = Normalize(calls[self].symptoms,
                                                       calls[self].language),
                    ![self].pc = "score" ]
    /\ UNCHANGED <<static, a_vars, h_vars>>

\* Mutant of CScore: the scan drops from self.medical_keywords the
\* categories that did not score.
CScoreForgetting(self) ==
    LET scores == ScoreFromIn(static.medical_keywords, calls[self].symptoms_lower, 1)
    IN /\ calls[self].pc = "score"
       /\ calls' = [ calls EXCEPT ![self].category_scores = scores,
                                  ![self].pc = "priority" ]
       /\ static' = [ static EXCEPT !.medical_keywords =
                        [ c \in DOMAIN @ |->
                            IF \E i \in 1..Len(scores) : scores[i][1] = c
                            THEN @[c] ELSE << >> ] ]
       /\ UNCHANGED <<a_vars, h_vars>>

\* category_scores = self._score_categories(symptoms_lower)
CScore(self) ==
    /\ calls[self].pc = "score"
    /\ calls' = [ calls EXCEPT
                    ![self].category_scores =
                        ScoreFromIn(static.medical_keywords,
                                    calls[self].symptoms_lower, 1),
                    ![self].pc = "priority" ]
    /\ UNCHANGED <<static, a_vars, h_vars>>

\* priority = self._determine_priority(symptoms_lower)
CPriority(self) ==
    /\ calls[self].pc = "priority"
    /\ calls' = [ calls EXCEPT
                    ![self].priority =
                        DeterminePriorityIn(static.priority_rules,
                                            calls[self].symptoms_lower),
                    ![self].pc = "return" ]
    /\ UNCHANGED <<static, a_vars, h_vars>>

\* The top category, the lookup in self.specialty_rules and the return.
CReturn(self) ==
    LET category_scores == calls[self].category_scores
        category   == IF category_scores # << >>
                      THEN TopCategory(category_scores)[1]
                      ELSE "general"
        confidence == IF category_scores # << >>
                      THEN Confidence(TopCategory(category_scores)[2])
                      ELSE DefaultConfidence
    IN /\ calls[self].pc = "return"
       /\ calls' = [ calls EXCEPT
                       ![self].result =
                           [ category   |-> category,
                             specialty  |-> SpecialtyOfIn(static.specialty_rules,
                                                          category),
                             priority   |-> calls[self].priority,
                             confidence |-> confidence,
                             raw_scores |-> category_scores ],
                       ![self].pc = "done" ]
       /\ UNCHANGED <<static, a_vars, h_vars>>

CNext ==
    \/ \E self \in Callers :
           CLower(self) \/ CScore(self) \/ CPriority(self) \/ CReturn(self)
    \/ FindNearby
    \/ Score

SpecConcurrent == CInit /\ [][CNext]_vars

-----------------------------------------------------------------------------
(* Properties of the classifier                                            *)

\* The text the scans of the finished call ran on.
Normalized == Normalize(symptoms, language)

\* The scores of the returned raw_scores.
RawScoreValues == { analysis.raw_scores[i][2] : i \in 1..Len(analysis.raw_scores) }

\* C1 as stated: whenever no category scores above zero, analyze returns
\* category 'general', specialty 'General Medicine', priority 'normal',
\* confidence 0.5 and empty raw_scores.
C1_NoMatchAllDefaults ==
    (a_pc = "done" /\ ScoreCategories(Normalized) = << >>) =>
        /\ analysis.category = "general"
        /\ analysis.specialty = "General Medicine"
        /\ analysis.priority = "normal"
        /\ analysis.confidence = 5
        /\ analysis.raw_scores = << >>

\* C1 as amended: whenever no category scores above zero, analyze returns
\* category 'general', specialty 'General Medicine', confidence 0.5 and
\* empty raw_scores; the priority is 'normal' unless the normalized text
\* contains the urgent phrase 'very dizzy', and then it is 'urgent'.
C1_NoMatchDefaults ==
    (a_pc = "done" /\ ScoreCategories(Normalized) = << >>) =>
        /\ analysis.category = "general"
        /\ analysis.specialty = "General Medicine"
        /\ analysis.confidence = 5
        /\ analysis.raw_scores = << >>
        /\ analysis.priority =
               IF Contains(C("very dizzy"), Normalized) THEN "urgent" ELSE "normal"

C1_Witness ==
    /\ a_pc = "done"
    /\ ScoreCategories(Normalized) = << >>
    /\ analysis.priority = "urgent"
    /\ analysis.category = "general"

ChestPainSentence == C("I have severe chest pain and difficulty breathing")

\* C2 as stated: for "I have severe chest pain and difficulty breathing"
\* in English, analyze returns category 'cardiovascular' and priority
\* 'critical'.
C2_ChestPainCardiovascular ==
    (a_pc = "done" /\ symptoms = ChestPainSentence /\ language = "en") =>
        /\ analysis.category = "cardiovascular"
        /\ analysis.priority = "critical"

\* C2 as amended: for that sentence in English, analyze returns category
\* 'respiratory' (respiratory scores 7, cardiovascular 5) and priority
\* 'critical'.
C2_ChestPainRespiratory ==
    (a_pc = "done" /\ symptoms = ChestPainSentence /\ language = "en") =>
        /\ analysis.category = "respiratory"
        /\ analysis.priority = "critical"
        /\ <<"respiratory", 7>> = analysis.raw_scores[2]
        /\ <<"cardiovascular", 5>> = analysis.raw_scores[1]

C2_Witness ==
    /\ a_pc = "done"
    /\ symptoms = ChestPainSentence
    /\ language = "en"
    /\ analysis.specialty = "Pulmonology"

\* C3: for every text and language code, the returned priority is one of
\* normal, urgent, critical and the returned confidence lies in [0, 1]
\* (0 to 10 tenths).
C3_PriorityAndConfidenceRange ==
    a_pc = "done" =>
        /\ analysis.priority \in { "normal", "urgent", "critical" }
        /\ analysis.confidence >= 0
        /\ analysis.confidence <= 10

\* The cap acts: the winning score is above 10 and the confidence is 1.0.
C3_Witness ==
    /\ a_pc = "done"
    /\ \E v \in RawScoreValues : v > 10
    /\ analysis.confidence = 10

\* The order of the categories the claim gives.
C4_Order ==
    << "cardiovascular", "respiratory", "neurological", "gastrointestinal",
       "orthopedic", "infectious", "emergency", "pediatric", "gynecological",
       "dermatology", "ophthalmology", "ent", "general" >>

C4_Rank(c) == CHOOSE k \in 1..Len(C4_Order) : C4_Order[k] = c

\* C4: when some category scored, the returned category has the maximum
\* score of all scored categories, and of the categories that tie for the
\* maximum it is the earliest in the fixed order.
C4_MaxScoreEarliestWins ==
    (a_pc = "done" /\ analysis.raw_scores # << >>) =>
        \E i \in 1..Len(analysis.raw_scores) :
            /\ analysis.raw_scores[i][1] = analysis.category
            /\ \A j \in 1..Len(analysis.raw_scores) :
                   /\ analysis.raw_scores[j][2] <= analysis.raw_scores[i][2]
                   /\ (j # i /\ analysis.raw_scores[j][2] = analysis.raw_scores[i][2])
                          => C4_Rank(analysis.raw_scores[j][1]) > C4_Rank(analysis.category)

\* Two categories tie for the maximum.
C4_Witness ==
    /\ a_pc = "done"
    /\ \E i, j \in 1..Len(analysis.raw_scores) :
           /\ i # j
           /\ analysis.raw_scores[i][2] = analysis.raw_scores[j][2]
           /\ \A k \in 1..Len(analysis.raw_scores) :
                  analysis.raw_scores[k][2] <= analysis.raw_scores[i][2]
           /\ analysis.raw_scores[i][1] = analysis.category

HasCriticalPhrase(s) ==
    \E p \in { priority_rules.critical[i] : i \in 1..Len(priority_rules.critical) } :
        Contains(p, s)

HasUrgentPhrase(s) ==
    \E p \in { priority_rules.urgent[i] : i \in 1..Len(priority_rules.urgent) } :
        Contains(p, s)

\* C5: the priority depends on the normalized text alone: 'critical' when
\* it contains a phrase of the critical list (also when it contains urgent
\* phrases too), otherwise 'urgent' when it contains a phrase of the urgent
\* list, otherwise 'normal'.
C5_PriorityFromPhraseLists ==
    a_pc = "done" =>
        /\ HasCriticalPhrase(Normalized) => analysis.priority = "critical"
        /\ (~HasCriticalPhrase(Normalized) /\ HasUrgentPhrase(Normalized))
               => analysis.priority = "urgent"
        /\ (~HasCriticalPhrase(Normalized) /\ ~HasUrgentPhrase(Normalized))
               => analysis.priority = "normal"

\* A text with a critical and an urgent phrase whose winning category is
\* not the one the critical phrase belongs to.
C5_Witness ==
    /\ a_pc = "done"
    /\ HasCriticalPhrase(Normalized)
    /\ HasUrgentPhrase(Normalized)
    /\ analysis.priority = "critical"
    /\ analysis.category = "respiratory"

-----------------------------------------------------------------------------
(* Properties of the ranking                                               *)

\* C6 as stated: every facility find_nearby_hospitals returns has a
\* distance_km field (hundredths of a kilometre) that is not greater than
\* max_distance_km (metres).
C6_DistanceFieldWithinRadius ==
    h_pc = "found" =>
        \A i \in 1..Len(hospitals) :
            hospitals[i].distance_km * 10 <= request.max_distance_km

\* C7: the list score_hospitals returns for the output of
\* find_nearby_hospitals is sorted non-increasing by total_score, and of
\* two facilities with the same total_score the one with the smaller
\* distance_km comes first.
C7_SortedByScoreThenDistance ==
    h_pc = "scored" =>
        \A i, j \in 1..Len(ranked) :
            i < j =>
                /\ ranked[i].total_score >= ranked[j].total_score
                /\ ranked[i].total_score = ranked[j].total_score
                       => ranked[i].distance_km <= ranked[j].distance_km

\* Two facilities with the same score and different distances.
C7_Witness ==
    /\ h_pc = "scored"
    /\ \E i, j \in 1..Len(ranked) :
           /\ i < j
           /\ ranked[i].total_score = ranked[j].total_score
           /\ ranked[i].distance_km < ranked[j].distance_km
           /\ ranked[i].id > ranked[j].id

C8_EmergencyRows ==
    { i \in 1..Len(db) : /\ db[i].has_emergency = 1
                         /\ db[i].open_247 = 1
                         /\ geodesic[i] <= 30000 }

C9_Sum(h, priority) ==
    (IF h.specialty_match THEN 4000
     ELSE IF C("General Medicine") \in { h.specialties[k] : k \in 1..Len(h.specialties) }
          THEN 2000 ELSE 0)
    + (IF h.distance_km <= 500 THEN 3000
       ELSE IF h.distance_km <= 1000 THEN 2500
       ELSE IF h.distance_km <= 2000 THEN 1500
       ELSE IF h.distance_km <= 3000 THEN 1000
       ELSE 500)
    + 4 * h.rating
    + (IF priority \in { "urgent", "critical" }
       THEN (IF h.has_emergency = 1 THEN 1000 ELSE 0)
            + (IF h.has_ambulance = 1 THEN 500 ELSE 0)
       ELSE 0)

C10_TotalScoreRange ==
    h_pc = "scored" =>
        \A i \in 1..Len(ranked) :
            (ranked[i].rating >= 0 /\ ranked[i].rating <= 500) =>
                /\ ranked[i].total_score >= 0
                /\ ranked[i].total_score <= 1050

\* A facility reaches 105.
C10_Witness ==
    /\ h_pc = "scored"
    /\ \E i \in 1..Len(ranked) : ranked[i].total_score = 1050

\* C11: score_hospitals called a second time on the list it has already
\* written into, with the same priority, returns the same facilities in the
\* same order with the same total_score as the first call.
C11_SecondCallSameResult ==
    h_pc = "rescored" =>
        /\ Len(ranked_again) = Len(ranked)
        /\ \A i \in 1..Len(ranked) :
               /\ ranked_again[i].id = ranked[i].id
               /\ ranked_again[i].total_score = ranked[i].total_score
               /\ ranked_again[i] = ranked[i]

\* A second call on two facilities the first call had to reorder.
C11_Witness ==
    /\ h_pc = "rescored"
    /\ Len(ranked_again) >= 2
    /\ ranked_again # hospitals
    /\ \E i \in 1..Len(ranked_again) : ranked_again[i].total_score > 0

\* The words of a trigger phrase: its maximal runs without a space.
C16_Words(phrase) ==
    { SubSeq(phrase, a, b) : <<a, b>> \in
        { ab \in (1..Len(phrase)) \X (1..Len(phrase)) :
            /\ ab[1] <= ab[2]
            /\ \A k \in ab[1]..ab[2] : phrase[k] # " "
            /\ ab[1] = 1 \/ phrase[ab[1] - 1] = " "
            /\ ab[2] = Len(phrase) \/ phrase[ab[2] + 1] = " " } }

\* The words of every trigger phrase of every category.
C16_WordsOf ==
    [ c \in DOMAIN medical_keywords |->
        [ i \in 1..Len(medical_keywords[c]) |-> C16_Words(medical_keywords[c][i]) ] ]

\* What the i-th trigger phrase of category c contributes for a text.
C16_Contribution(c, i, text) ==
    LET phrase == medical_keywords[c][i]
    IN IF Contains(phrase, text) THEN 3
       ELSE IF /\ \E k \in 1..Len(phrase) : phrase[k] = " "
               /\ \E word \in C16_WordsOf[c][i] : Contains(word, text)
            THEN 1
            ELSE 0

RECURSIVE C16_Sum(_, _, _)
C16_Sum(c, i, text) ==
    IF i = 0 THEN 0
    ELSE C16_Contribution(c, i, text) + C16_Sum(c, i - 1, text)

\* C16: every trigger phrase contributes 3 if it is a substring of the
\* normalized text, otherwise 1 if it has several words and one of them is
\* a substring, otherwise 0; raw_scores holds exactly the categories whose
\* contributions sum to more than 0, each with that sum.
C16_RawScoresArePhraseSums ==
    a_pc = "done" =>
        /\ \A c \in DOMAIN medical_keywords :
               LET sum == C16_Sum(c, Len(medical_keywords[c]), Normalized)
               IN IF sum > 0
                  THEN \E k \in 1..Len(analysis.raw_scores) :
                           analysis.raw_scores[k] = <<c, sum>>
                  ELSE \A k \in 1..Len(analysis.raw_scores) :
                           analysis.raw_scores[k][1] # c
        /\ \A j, k \in 1..Len(analysis.raw_scores) :
               analysis.raw_scores[j][1] = analysis.raw_scores[k][1] => j = k
        /\ \A k \in 1..Len(analysis.raw_scores) :
               analysis.raw_scores[k][1] \in DOMAIN medical_keywords

\* A text with a phrase that is a substring, a phrase of which two words
\* are substrings but not the phrase, and a category that stays out.
C16_Witness ==
    /\ a_pc = "done"
    /\ \E c \in DOMAIN medical_keywords : \E i \in 1..Len(medical_keywords[c]) :
           Contains(medical_keywords[c][i], Normalized)
    /\ \E c \in DOMAIN medical_keywords : \E i \in 1..Len(medical_keywords[c]) :
           /\ ~ Contains(medical_keywords[c][i], Normalized)
           /\ Cardinality({ w \in C16_WordsOf[c][i] : Contains(w, Normalized) }) >= 2
           /\ \E k \in 1..Len(analysis.raw_scores) : analysis.raw_scores[k][1] = c
    /\ \E c \in DOMAIN medical_keywords :
           \A k \in 1..Len(analysis.raw_scores) : analysis.raw_scores[k][1] # c

-----------------------------------------------------------------------------
(* Properties of the lookup with any coordinates                           *)

\* C12: when the user latitude is outside [-90, 90] or the longitude is
\* outside [-180, 180], find_nearby_hospitals fails with an error and
\* returns no list of facilities.
C12_InvalidCoordinateFails ==
    ( /\ ~ ( ValidLatitude(location.latitude)
             /\ ValidLongitude(location.longitude) )
      /\ h_pc \notin { "request", "emergency" } )
    => ( h_pc = "error" /\ hospitals = << >> )

-----------------------------------------------------------------------------
(* Properties of the two stages of the ranking                             *)

\* The row passes the filter of the priority and lies within the radius.
Selected(row) ==
    /\ request.priority = "critical" => (row.has_emergency = 1 /\ row.open_247 = 1)
    /\ request.priority = "urgent" => row.has_emergency = 1
    /\ geodesic[row.id] <= request.max_distance_km

\* The column is NULL or the empty string.
Missing(column) == column = None \/ column = << >>

\* C13: a row whose specialties or facilities column is NULL or empty is
\* returned with the empty list in that field, matches only when no
\* specialty is asked for, and is scored with no credit for a specialty it
\* does not have; neither stage raises, for any specialty and priority.
C13_MissingFieldIsEmpty ==
    /\ h_pc # "error"
    /\ h_pc \in { "found", "scored", "rescored" } =>
           \A r \in 1..Len(db) :
               (Selected(db[r]) /\ (Missing(db[r].specialties) \/ Missing(db[r].facilities)))
               => \E i \in 1..Len(hospitals) :
                      /\ hospitals[i].id = db[r].id
                      /\ Missing(db[r].facilities) => hospitals[i].facilities = << >>
                      /\ Missing(db[r].specialties) =>
                             /\ hospitals[i].specialties = << >>
                             /\ hospitals[i].specialty_match
                                    <=> Missing(request.specialty)
                             /\ (h_pc # "found" /\ ~ Missing(request.specialty))
                                    => hospitals[i].total_score
                                           = Round1(100 * (DistanceScore(hospitals[i])
                                                           + EmergencyScore(hospitals[i],
                                                                            request.priority))
                                                    + RatingScore(hospitals[i]))

\* A row with NULL columns and a row with empty columns, both returned and
\* scored while cardiology is asked for.
C13_Witness ==
    /\ h_pc = "scored"
    /\ ~ Missing(request.specialty)
    /\ \E i, j \in 1..Len(ranked) :
           /\ db[ranked[i].id].specialties = None
           /\ db[ranked[j].id].specialties = << >>
           /\ ranked[i].specialties = << >>
           /\ "total_score" \in DOMAIN ranked[j]

\* C14: a priority other than normal, urgent and critical behaves as
\* 'normal' in both stages: every row within the radius is returned,
\* whatever its emergency and 24x7 flags, no facility earns the readiness
\* bonus, and the lists are those the same request gets with 'normal'.
C14_UnknownPriorityIsNormal ==
    ( /\ request.priority \notin { "normal", "urgent", "critical" }
      /\ h_pc \in { "found", "scored", "rescored" } )
    => /\ \A r \in 1..Len(db) :
              geodesic[r] <= request.max_distance_km
              => \E i \in 1..Len(hospitals) : hospitals[i].id = db[r].id
       /\ h_pc = "found" =>
              hospitals = FindNearbyHospitals(db, geodesic, request.specialty,
                                              "normal", request.max_distance_km)
       /\ h_pc # "found" =>
              /\ ranked = ScoreHospitals(
                              FindNearbyHospitals(db, geodesic, request.specialty,
                                                  "normal", request.max_distance_km),
                              "normal")
              /\ \A i \in 1..Len(ranked) :
                     ranked[i].total_score
                         = Round1(100 * (SpecialtyScore(ranked[i])
                                         + DistanceScore(ranked[i]))
                                  + RatingScore(ranked[i]))

\* An unknown priority, and a facility without emergency department
\* returned and a facility with one scored.
C14_Witness ==
    /\ request.priority = "routine"
    /\ h_pc = "scored"
    /\ \E i, j \in 1..Len(ranked) :
           /\ ranked[i].has_emergency = 0
           /\ ranked[j].has_emergency = 1
           /\ ranked[j].has_ambulance = 1

-----------------------------------------------------------------------------
(* Properties of concurrent requests                                       *)

\* C15: no step of analyze, find_nearby_hospitals or score_hospitals writes
\* the shared tables or the hospitals table, and under every interleaving
\* each call returns what it returns when run alone.
C15_NoInterference ==
    /\ static # << >> => static = StaticTables
    /\ \A self \in DOMAIN calls :
           calls[self].pc = "done"
           => calls[self].result = AnalyzeResult(calls[self].symptoms,
                                                 calls[self].language)
    /\ (calls # << >> /\ h_pc \in { "found", "scored" })
           => hospitals = IF h_pc = "found"
                          THEN FindNearbyHospitals(db, geodesic, request.specialty,
                                                   request.priority,
                                                   request.max_distance_km)
                          ELSE Scored(FindNearbyHospitals(db, geodesic,
                                                          request.specialty,
                                                          request.priority,
                                                          request.max_distance_km),
                                      request.priority)

\* One call has returned while the other, with other arguments, and a
\* lookup are under way.
C15_Witness ==
    /\ calls # << >>
    /\ calls[1].pc = "done"
    /\ calls[2].pc = "return"
    /\ calls[1].result # NoAnalysis
    /\ calls[2].symptoms # calls[1].symptoms
    /\ calls[2].category_scores # calls[1].result.raw_scores
    /\ h_pc = "found"
    /\ hospitals # << >>

\* floor(km / 25 * 60) for a distance given as a fraction of a kilometre:
\* the most minutes that 25 km/h does not need to exceed the distance.
C17_Minutes(distance, per_km) ==
    CHOOSE t \in 0..200 :
        /\ t * 25 * per_km <= distance * 60
        /\ (t + 1) * 25 * per_km > distance * 60

C18_ReadinessFilter ==
    /\ h_pc \in { "found", "scored", "rescored" } =>
           \A i \in 1..Len(hospitals) :
               /\ request.priority = "critical" =>
                      (hospitals[i].has_emergency = 1 /\ hospitals[i].open_247 = 1)
               /\ request.priority = "urgent" => hospitals[i].has_emergency = 1
    /\ h_pc \in { "scored", "rescored" } =>
           /\ Len(ranked) = Len(hospitals)
           /\ \A i \in 1..Len(hospitals) :
                  \E j \in 1..Len(ranked) : ranked[j].id = hospitals[i].id
           /\ \A j \in 1..Len(ranked) :
                  /\ request.priority = "critical" =>
                         (ranked[j].has_emergency = 1 /\ ranked[j].open_247 = 1)
                  /\ request.priority = "urgent" => ranked[j].has_emergency = 1

\* A critical request answered and scored, with a row in reach that has an
\* emergency department but closes at night, and so is not returned.
C18_Witness ==
    /\ h_pc = "scored"
    /\ request.priority = "critical"
    /\ ranked # << >>
    /\ \E r \in 1..Len(db) :
           /\ db[r].has_emergency = 1
           /\ db[r].open_247 = 0
           /\ geodesic[r] <= request.max_distance_km
           /\ \A j \in 1..Len(ranked) : ranked[j].id # db[r].id

\* The same string up to the case of its ASCII letters.
C19_SameIgnoringCase(s, t) ==
    /\ Len(s) = Len(t)
    /\ \A k \in 1..Len(s) :
           \/ s[k] = t[k]
           \/ \E n \in 1..26 : { s[k], t[k] } = { UpperCase[n], LowerCase[n] }

\* C19: specialty_match is true for every returned facility when no
\* specialty or the empty one is asked for; otherwise it is true exactly
\* when one of the facility's specialty strings has a stretch equal to the
\* required specialty up to case, so never for a facility without
\* specialties.
C19_SpecialtyMatch ==
    h_pc = "found" =>
        \A i \in 1..Len(hospitals) :
            IF request.specialty = None \/ request.specialty = << >>
            THEN hospitals[i].specialty_match
            ELSE /\ hospitals[i].specialty_match
                        <=> \E k \in 1..Len(hospitals[i].specialties) :
                                LET name == hospitals[i].specialties[k]
                                    n    == Len(request.specialty)
                                IN \E a \in 1..(Len(name) - n + 1) :
                                       C19_SameIgnoringCase(
                                           SubSeq(name, a, a + n - 1),
                                           request.specialty)
                 /\ hospitals[i].specialties = << >>
                        => ~ hospitals[i].specialty_match

\* 'cardiology' asked for in lower case: a facility with 'Cardiology'
\* matches, one with other specialties and one with none do not.
C19_Witness ==
    /\ h_pc = "found"
    /\ request.specialty = C("cardiology")
    /\ \E i, j \in 1..Len(hospitals) :
           /\ hospitals[i].specialty_match
           /\ hospitals[i].specialties[1] = C("Cardiology")
           /\ ~ hospitals[j].specialty_match
           /\ hospitals[j].specialties = << >>

\* C20: a call of score_hospitals returns a permutation of its input list,
\* leaves the input list in its order, and writes no field of any record
\* but total_score.
C20_ScoreOnlyWritesTotalScore ==
    [][ (h_pc \in { "found", "scored" } /\ h_pc' \in { "scored", "rescored" })
        => LET returned == IF h_pc' = "scored" THEN ranked' ELSE ranked_again'
           IN /\ Len(hospitals') = Len(hospitals)
              /\ \A i \in 1..Len(hospitals) :
                     /\ DOMAIN hospitals'[i] = DOMAIN hospitals[i] \cup { "total_score" }
                     /\ \A k \in DOMAIN hospitals[i] \ { "total_score" } :
                            hospitals'[i][k] = hospitals[i][k]
              /\ Len(returned) = Len(hospitals)
              /\ \E p \in [ 1..Len(hospitals) -> 1..Len(hospitals) ] :
                     /\ \A i, j \in 1..Len(hospitals) : p[i] = p[j] => i = j
                     /\ \A i \in 1..Len(hospitals) : returned[i] = hospitals'[p[i]]
      ]_vars

\* Two facilities scored, the farther one first in the returned list.
C20_Witness ==
    /\ h_pc = "scored"
    /\ Len(hospitals) = 2
    /\ ranked = << hospitals[2], hospitals[1] >>
    /\ hospitals[1].distance_km < hospitals[2].distance_km

=============================================================================
